---- MODULE Spec2Model ----
(***************************************************************************)
(* The research pipeline of search-app (backend/):                         *)
(*   QueryGenerator -> SearchHandler -> ContentExtractor -> Summarizer     *)
(* sequenced by main.search_and_summarize.                                 *)
(*                                                                         *)
(* External collaborators (the LLM completion call, the search provider,   *)
(* page fetches) are nondeterministic: every action that calls one draws   *)
(* the call's outcome from a set handed to the action, so that the same    *)
(* action serves the component specifications (wide outcome sets) and the  *)
(* whole-pipeline specification (narrow ones).                             *)
(*                                                                         *)
(* Strings the program builds with f-strings are tuples of their parts.    *)
(***************************************************************************)
EXTENDS Integers, Sequences, FiniteSets, TLC

VARIABLES
    request,            \* DocumentRequest: subject, purpose, jurisdiction
    pc,                 \* position of search_and_summarize
    error,              \* the exception that escaped a stage ("" if none)
    qg_reply,           \* what the completion call of generate_queries gave
    queries,            \* main.py:81
    provider_answers,   \* what the search provider answered to each query
    search_results,     \* main.py:89
    fetched_pages,      \* what fetching the URL of each search result gave
    extracted_content,  \* main.py:93
    source_summaries,   \* main.py:97 (summarizer.py:32 while it is built)
    llm_calls,          \* completion calls of the Summarizer: how many, all failed?
    synth_reply,        \* what the completion call of synthesize_summary gave
    unified_summary,    \* main.py:101
    response,           \* the SearchResponse returned (main.py:110)
    sum_pc,             \* position of Summarizer.summarize_sources
    batch_i,            \* loop variable i of summarize_sources
    tasks               \* the _summarize_single_source coroutines of the batch

vars == <<request, pc, error, qg_reply, queries, provider_answers, search_results,
          fetched_pages, extracted_content,
          source_summaries, llm_calls, synth_reply, unified_summary, response,
          sum_pc, batch_i, tasks>>

(***************************************************************************)
(* Bounds of the model.                                                    *)
(***************************************************************************)
MaxItems == 3          \* items in the JSON array of a query-generation reply

MaxQueries == 4        \* queries handed to execute_searches

RichQueries == 1       \* up to this many queries, every short result list is tried

MaxShort == 2          \* length of the short result lists

LongLen == 6           \* length of the long result lists

MaxSources == 2        \* sources handed to summarize_sources

MaxUrls == 2           \* search results handed to extract_multiple

MaxLong == 1           \* sources of several chunks in a list

MaxBullets == 5        \* marked lines in a chunk or consolidation completion

MaxSynthBullets == 8   \* marked lines in a synthesis completion

(***************************************************************************)
(* Generic helpers.                                                        *)
(***************************************************************************)
Min(a, b) == IF a <= b THEN a ELSE b

\* s[:n] of Python, n >= 0
Take(s, n) == SubSeq(s, 1, Min(n, Len(s)))

\* [x] * n of Python
Repeat(x, n) == [k \in 1..n |-> x]

SeqsUpTo(S, n) == UNION {[1..k -> S] : k \in 0..n}

\* The outcome of a step that may raise: the exception's name, or "" and a value
Raised(exc) == [exc |-> exc, value |-> <<>>]

Returned(value) == [exc |-> "", value |-> value]

(***************************************************************************)
(* Requests (main.py DocumentRequest).  subject and purpose are non-empty  *)
(* (min_length=1); jurisdiction is optional: NoJurisdiction stands for     *)
(* None, which `if jurisdiction` treats like the empty string.             *)
(***************************************************************************)
NoJurisdiction == ""

Subjects == {"housing affordability", "transit"}

Purposes == {"briefing note", "cabinet submission"}

Jurisdictions == {NoJurisdiction, "Ontario"}

Requests == [subject : Subjects, purpose : Purposes, jurisdiction : Jurisdictions]

DefaultRequest ==
    [subject |-> "housing affordability", purpose |-> "briefing note", jurisdiction |-> "Ontario"]

(***************************************************************************)
(* QueryGenerator (query_generator.py).                                    *)
(*                                                                         *)
(* A completion reply is either a failed call (kind "error": timeout, API  *)
(* error, a None message content) or a text.  The text is a payload        *)
(* possibly wrapped in a markdown fence:                                   *)
(*   fence "none"   - the bare payload                                     *)
(*   fence "json"   - ```json <payload> ```                                *)
(*   fence "bare"   - ``` <payload> ```                                    *)
(*   fence "tagged" - ```<other language tag> <payload> ```                *)
(* The payload is what json.loads sees: "invalid" (not JSON), "scalar" (a  *)
(* number: valid JSON, not iterable) or "array" with its items.  An item   *)
(* is a JSON object (isdict) with or without the keys "query" and          *)
(* "category", or some other JSON value.  Null is JSON null.               *)
(***************************************************************************)
Null == "<null>"

Categories == {"background", "recent", "policy"}

LLMQueryTexts == {"llm query"}

LLMCategories == Categories \cup {"news", Null}

Item(isdict, hq, hc, q, c) ==
    [isdict |-> isdict, has_query |-> hq, has_category |-> hc, query |-> q, category |-> c]

NoItems == <<>>

QGItems ==
    {Item(TRUE, TRUE, TRUE, q, c) : q \in LLMQueryTexts, c \in LLMCategories}
        \cup {Item(TRUE, FALSE, TRUE, Null, "background"),
              Item(TRUE, TRUE, FALSE, "llm query", Null),
              Item(FALSE, FALSE, FALSE, Null, Null)}

Payload(json, items) == [json |-> json, items |-> items]

QGPayloads ==
    {Payload("invalid", NoItems), Payload("scalar", NoItems)}
        \cup {Payload("array", items) : items \in SeqsUpTo(QGItems, MaxItems)}

QGReply(kind, fence, payload) == [kind |-> kind, fence |-> fence, payload |-> payload]

QGError == QGReply("error", "none", Payload("invalid", NoItems))

Fences == {"none", "json", "bare", "tagged"}

QGReplies == {QGError} \cup {QGReply("text", f, p) : f \in Fences, p \in QGPayloads}

SearchQuery(q, c) == [query |-> q, category |-> c]

\* query_generator.py:75-78.  Between the fences of ```json ... ``` or of
\* ``` ... ``` lies the payload; after any other tag the tag itself is part of
\* what is handed to json.loads, which then fails.
StripFence(fence, payload) ==
    IF fence = "tagged" THEN Payload("invalid", NoItems) ELSE payload

\* query_generator.py:85
ItemAccepted(item) == item.isdict /\ item.has_query /\ item.has_category

\* query_generator.py:86-89: pydantic rejects a value that is no string
ItemValid(item) == item.query # Null /\ item.category # Null

RECURSIVE ConvertItems(_, _)
\* query_generator.py:83-89
ConvertItems(items, queries_so_far) ==
    IF items = <<>> THEN Returned(queries_so_far)
    ELSE LET item == Head(items)
         IN  IF ~ItemAccepted(item) THEN ConvertItems(Tail(items), queries_so_far)
             ELSE IF ~ItemValid(item) THEN Raised("ValidationError")
             ELSE ConvertItems(Tail(items),
                               Append(queries_so_far,
                                      SearchQuery(<<item.query>>, item.category)))

\* query_generator.py:113
jurisdiction_suffix(jurisdiction) ==
    IF jurisdiction # NoJurisdiction THEN <<" ", jurisdiction>> ELSE <<" government">>

\* templates that also put the purpose in the first query
FallbackWithPurpose(subject, purpose, jurisdiction) ==
    << SearchQuery(<<subject, " ", purpose, " background">> \o jurisdiction_suffix(jurisdiction),
                   "background"),
       SearchQuery(<<subject, " recent news updates 2025">> \o jurisdiction_suffix(jurisdiction),
                   "recent"),
       SearchQuery(<<subject, " official report government policy">>, "policy") >>

\* query_generator.py:109-136
_generate_fallback_queries(subject, purpose, jurisdiction) ==
    << SearchQuery(<<subject, " policy background">> \o jurisdiction_suffix(jurisdiction),
                   "background"),
       SearchQuery(<<subject, " recent news updates 2025">> \o jurisdiction_suffix(jurisdiction),
                   "recent"),
       SearchQuery(<<subject, " official report government policy">>, "policy") >>

\* query_generator.py:58-107
generate_queries(req, reply) ==
    LET fallback == _generate_fallback_queries(req.subject, req.purpose, req.jurisdiction)
        data == StripFence(reply.fence, reply.payload)
        conv == ConvertItems(data.items, <<>>)
    IN  IF reply.kind = "error" THEN fallback           \* except Exception
        ELSE IF data.json = "invalid" THEN fallback     \* except json.JSONDecodeError
        ELSE IF data.json = "scalar" THEN fallback      \* TypeError: not iterable
        ELSE IF conv.exc # "" THEN fallback             \* pydantic ValidationError
        ELSE IF Len(conv.value) # 3 THEN fallback       \* line 91
        ELSE conv.value

(***************************************************************************)
(* main.search_and_summarize, step 1 (main.py:81).  generate_queries       *)
(* catches every Exception, so this step never raises.                     *)
(***************************************************************************)
GenerateQueries(replies) ==
    /\ pc = "generate_queries"
    /\ \E reply \in replies :
          /\ qg_reply' = reply
          /\ queries' = generate_queries(request, reply)
    /\ pc' = "execute_searches"
    /\ UNCHANGED <<request, fetched_pages, error, provider_answers, search_results,
                   extracted_content, source_summaries, llm_calls, synth_reply, unified_summary, response,
                   sum_pc, batch_i, tasks>>

(***************************************************************************)
(* SearchHandler (search_handler.py).                                      *)
(*                                                                         *)
(* A title is the sequence of its whitespace-separated tokens, so an empty *)
(* or whitespace-only title is <<>>.  A token is <<letters, number,        *)
(* capitalised>>; str.lower() clears the flag.                             *)
(***************************************************************************)
Word(w) == <<w, 0, FALSE>>

Cap(w) == <<w, 0, TRUE>>

Lower(word) == <<word[1], word[2], FALSE>>

\* set(title.lower().split()), search_handler.py:175 and :179
TitleWords(title) == {Lower(title[k]) : k \in DOMAIN title}

EmptyTitle == <<>>

(***************************************************************************)
(* A URL is host, path and file extension.  NoUrl is the empty string that *)
(* item.get("link", "") gives for a result without a link.                 *)
(***************************************************************************)
Url(host, path, ext) == [host |-> host, path |-> path, ext |-> ext]

NoUrl == Url("", <<0, 0>>, "")

\* urlparse(url).netloc.lower(), search_handler.py:99
LowerHost(host) == IF host = "Ontario.ca" THEN "ontario.ca" ELSE host

(***************************************************************************)
(* What _is_low_quality_domain reads of a (lowercased) domain: whether a   *)
(* spam keyword is a substring, its length, its digits, hyphens and dots,  *)
(* and whether it ends in one of the suspicious TLDs.                      *)
(***************************************************************************)
DomainFacts(spam, len, digits, hyphens, dots, tld) ==
    [spam |-> spam, len |-> len, digits |-> digits, hyphens |-> hyphens,
     dots |-> dots, bad_tld |-> tld]

DomainInfo(domain) ==
    CASE domain = "ontario.ca"            -> DomainFacts(FALSE, 10, 0, 0, 1, FALSE)
      [] domain = "canada.ca"             -> DomainFacts(FALSE, 9, 0, 0, 1, FALSE)
      [] domain = "best-casino-deals.com" -> DomainFacts(TRUE, 21, 0, 2, 1, FALSE)
      [] domain = "4519023.net"           -> DomainFacts(FALSE, 11, 7, 0, 1, FALSE)
      [] domain = "a-b-c-d-e.org"         -> DomainFacts(FALSE, 13, 0, 4, 1, FALSE)
      [] domain = "x.ca"                  -> DomainFacts(FALSE, 4, 0, 0, 1, FALSE)
      [] domain = "news.tk"               -> DomainFacts(FALSE, 7, 0, 0, 1, TRUE)
      [] OTHER                            -> DomainFacts(FALSE, 0, 0, 0, 0, FALSE)

\* search_handler.py:123-156
_is_low_quality_domain(domain) ==
    LET d == DomainInfo(domain)
    IN  \/ d.spam                                  \* :141
        \/ 10 * d.digits > 3 * d.len               \* :147, digits > len * 0.3
        \/ d.hyphens > 3                           \* :149
        \/ d.len - d.dots - d.hyphens < 4          \* :151
        \/ d.bad_tld                               \* :153

\* search_handler.py:109, url.lower().endswith(...)
DocumentExtensions == {".pdf", ".PDF", ".doc", ".docx", ".xls", ".xlsx"}

SearchResult(title, url, domain) == [title |-> title, url |-> url, domain |-> domain]

(***************************************************************************)
(* One organic result of the provider: a JSON object whose "title" may be  *)
(* missing (item.get("title", "") is then the empty title).  The snippet   *)
(* is carried by the program but read by no stage, and is left out.        *)
(***************************************************************************)
Organic(title, url) == [has_title |-> TRUE, title |-> title, link |-> url]

OrganicNoTitle(url) == [has_title |-> FALSE, title |-> EmptyTitle, link |-> url]

(***************************************************************************)
(* The provider's answer to one query.                                     *)
(*   kind "status"   - HTTP status other than 200                          *)
(*   kind "network"  - session.get raised                                  *)
(*   kind "bad_json" - status 200 and response.json() raised               *)
(*   kind "json"     - status 200 and a JSON body: a JSON object (isdict)  *)
(*                     with or without "organic_results", which is a list  *)
(*                     or JSON null; or a JSON value that is no object     *)
(***************************************************************************)
JsonBody(isdict, has, isnull, organic) ==
    [isdict |-> isdict, has_organic |-> has, organic_null |-> isnull, organic |-> organic]

ProviderAnswer(kind, body) == [kind |-> kind, body |-> body]

\* {"organic_results": []}, search_handler.py:77 and :81
EmptyOrganic == JsonBody(TRUE, TRUE, FALSE, <<>>)

AnswerOk(organic) == ProviderAnswer("json", JsonBody(TRUE, TRUE, FALSE, organic))

AnswerStatus == ProviderAnswer("status", EmptyOrganic)

AnswerNetwork == ProviderAnswer("network", EmptyOrganic)

AnswerBadJson == ProviderAnswer("bad_json", EmptyOrganic)

\* valid JSON of another shape: an array, an object with organic_results null,
\* an object without organic_results (the provider's {"error": ...})
AnswerNotDict == ProviderAnswer("json", JsonBody(FALSE, FALSE, FALSE, <<>>))

AnswerNullResults == ProviderAnswer("json", JsonBody(TRUE, TRUE, TRUE, <<>>))

AnswerNoResultsKey == ProviderAnswer("json", JsonBody(TRUE, FALSE, FALSE, <<>>))

\* search_handler.py:69-81: what one query's task hands to gather.  Every
\* exception is caught, so the task never returns an exception.
_search_single_query(answer) ==
    IF answer.kind = "json" THEN answer.body ELSE EmptyOrganic

\* search_handler.py:92-118, the loop body's decision for one item
KeepsItem(item) ==
    /\ ~_is_low_quality_domain(LowerHost(item.link.host))
    /\ item.link.ext \notin DocumentExtensions

RECURSIVE FilterItems(_)
FilterItems(organic) ==
    IF organic = <<>> THEN <<>>
    ELSE LET item == Head(organic)
         IN  (IF KeepsItem(item)
                THEN <<SearchResult(item.title, item.link, LowerHost(item.link.host))>>
                ELSE <<>>) \o FilterItems(Tail(organic))

\* search_handler.py:83-121
_filter_results(body) ==
    IF ~body.isdict THEN Raised("AttributeError")        \* :88, no .get
    ELSE IF ~body.has_organic THEN Returned(<<>>)        \* :88, the default []
    ELSE IF body.organic_null THEN Raised("TypeError")   \* :92, None is not iterable
    ELSE Returned(FilterItems(body.organic))

\* a stricter threshold, 0.9
\* the similarity test with a threshold of 0.9
SimilarTitlesAbove90(a, b) ==
    10 * Cardinality(TitleWords(a) \cap TitleWords(b))
        > 9 * Cardinality(TitleWords(a) \cup TitleWords(b))

\* search_handler.py:180.  len(a & b) / len(a | b) > 0.8 in floating point is
\* 5 * |a & b| > 4 * |a | b| for every division of two word counts.
SimilarTitles(a, b) ==
    5 * Cardinality(TitleWords(a) \cap TitleWords(b))
        > 4 * Cardinality(TitleWords(a) \cup TitleWords(b))

\* search_handler.py:180: the division raises when neither title has a word.
\* A title without words is similar to no other title, so the loop over
\* seen_titles reaches every seen title and raises if one of them has no word,
\* in whatever order the set is iterated.
DivisionByZero(title, seen_titles) ==
    /\ TitleWords(title) = {}
    /\ \E seen \in seen_titles : TitleWords(seen) = {}

RECURSIVE DedupLoop(_, _, _, _)
\* search_handler.py:168-190
DedupLoop(results, seen_urls, seen_titles, unique_results) ==
    IF results = <<>> THEN Returned(unique_results)
    ELSE LET result == Head(results)
         IN  IF result.url \in seen_urls
               THEN DedupLoop(Tail(results), seen_urls, seen_titles, unique_results)
             ELSE IF DivisionByZero(result.title, seen_titles)
               THEN Raised("ZeroDivisionError")
             ELSE IF \E seen \in seen_titles : SimilarTitles(result.title, seen)
               THEN DedupLoop(Tail(results), seen_urls, seen_titles, unique_results)
             ELSE DedupLoop(Tail(results), seen_urls \cup {result.url},
                            seen_titles \cup {result.title},
                            Append(unique_results, result))

\* search_handler.py:158-193
_deduplicate_results(results) == DedupLoop(results, {}, {}, <<>>)

PerQueryCap == 5

TotalCap == 15

\* a response cut to its first 5 organic results
TopOrganic(body) == [body EXCEPT !.organic = Take(body.organic, PerQueryCap)]

RECURSIVE MergeTopThenFilter(_, _)
\* the merge that cuts a response to 5 results before it filters them
MergeTopThenFilter(search_responses, all_results) ==
    IF search_responses = <<>> THEN Returned(all_results)
    ELSE LET filtered == _filter_results(TopOrganic(Head(search_responses)))
         IN  IF filtered.exc # "" THEN filtered
             ELSE MergeTopThenFilter(Tail(search_responses),
                                     all_results \o filtered.value)

RECURSIVE MergeFiltered(_, _)
\* search_handler.py:35-41 over the gathered responses, in query order
MergeFiltered(search_responses, all_results) ==
    IF search_responses = <<>> THEN Returned(all_results)
    ELSE LET filtered == _filter_results(Head(search_responses))
         IN  IF filtered.exc # "" THEN filtered
             ELSE MergeFiltered(Tail(search_responses),
                                all_results \o Take(filtered.value, PerQueryCap))

\* without the [:15] of the return
\* the deduplicated list without the slice of :51
DedupNoCap(all_results) ==
    IF all_results.exc # "" THEN all_results
    ELSE _deduplicate_results(all_results.value)

\* search_handler.py:43-51
DedupAndCap(all_results) ==
    IF all_results.exc # "" THEN all_results
    ELSE LET unique_results == _deduplicate_results(all_results.value)
         IN  IF unique_results.exc # "" THEN unique_results
             ELSE Returned(Take(unique_results.value, TotalCap))

\* search_handler.py:22-51, given the provider's answer to each query
execute_searches(answers) ==
    DedupAndCap(MergeFiltered([k \in DOMAIN answers |-> _search_single_query(answers[k])],
                              <<>>))

(***************************************************************************)
(* main.search_and_summarize, step 2 (main.py:89).  answers[n] is the set  *)
(* of answers the provider may give to each of n queries.  An exception    *)
(* that escapes execute_searches is caught at main.py:117 and becomes the  *)
(* HTTP 500 error.                                                         *)
(***************************************************************************)
ExecuteSearches(answers) ==
    /\ pc = "execute_searches"
    /\ \E given \in [1..Len(queries) -> answers[Len(queries)]] :
         \E out \in {execute_searches(given)} :
           /\ provider_answers' = given
           /\ IF out.exc = ""
               THEN /\ search_results' = out.value
                    /\ pc' = "extract_multiple"
                    /\ error' = ""
               ELSE /\ search_results' = search_results
                    /\ pc' = "raised"
                    /\ error' = out.exc
    /\ UNCHANGED <<request, fetched_pages, qg_reply, queries, extracted_content,
                   source_summaries, llm_calls, synth_reply, unified_summary, response,
                   sum_pc, batch_i, tasks>>

(***************************************************************************)
(* The provider answers that are tried.                                    *)
(*                                                                         *)
(* Long lists: LongList(q) is LongLen results on an acceptable domain with *)
(* pairwise distinct URLs and pairwise dissimilar one-word titles, and no  *)
(* URL or title in common with another long list.  Two queries may get the *)
(* same list (the same top hits for different queries).                    *)
(*                                                                         *)
(* Short lists: every list of at most MaxShort of the results below, whose *)
(* titles are                                                              *)
(*   T4 = Housing Plan Ontario 2025          (capitalised)                 *)
(*   T5 = housing plan ontario 2025 update   (Jaccard with T4: 4/5)        *)
(*   T6 = housing plan ontario 2025 update new  (with T5: 5/6, T4: 4/6)    *)
(***************************************************************************)
T4 == <<Cap("housing"), Cap("plan"), Cap("ontario"), Word("2025")>>

T5 == <<Word("housing"), Word("plan"), Word("ontario"), Word("2025"), Word("update")>>

T6 == T5 \o <<Word("new")>>

ItemT4 == Organic(T4, Url("ontario.ca", <<0, 1>>, ""))

ItemT5 == Organic(T5, Url("Ontario.ca", <<0, 2>>, ".html"))

ItemT6 == Organic(T6, Url("canada.ca", <<0, 3>>, ""))

ItemSameUrl == Organic(<<Word("budget")>>, Url("ontario.ca", <<0, 1>>, ""))

ItemEmptyTitle == Organic(EmptyTitle, Url("canada.ca", <<0, 4>>, ""))

ItemNoTitle == OrganicNoTitle(Url("canada.ca", <<0, 5>>, ""))

ItemSpam == Organic(<<Word("win")>>, Url("best-casino-deals.com", <<0, 6>>, ""))

ItemPdf == Organic(<<Word("annex")>>, Url("ontario.ca", <<0, 7>>, ".PDF"))

ShortItems ==
    {ItemT4, ItemT5, ItemT6, ItemSameUrl, ItemEmptyTitle, ItemNoTitle, ItemSpam, ItemPdf}

ShortLists == SeqsUpTo(ShortItems, MaxShort)

LongList(q) ==
    [k \in 1..LongLen |-> Organic(<<<<"doc", 10 * q + k, FALSE>>>>, Url("ontario.ca", <<q, k>>, ""))]

LongAnswers == {AnswerOk(LongList(q)) : q \in 1..MaxQueries}

\* a full page of the provider ("num": 10, search_handler.py:62): results on
\* acceptable domains at ranks 2, 5 and 9, the rest on low-quality domains
SpamHostAt(k) ==
    CASE k % 5 = 0 -> "best-casino-deals.com"
      [] k % 5 = 1 -> "4519023.net"
      [] k % 5 = 2 -> "a-b-c-d-e.org"
      [] k % 5 = 3 -> "x.ca"
      [] k % 5 = 4 -> "news.tk"

InterleavedList ==
    [k \in 1..10 |->
        IF k \in {2, 5, 9}
          THEN Organic(<<<<"gov", k, FALSE>>>>, Url((IF k = 5 THEN "canada.ca" ELSE "ontario.ca"), <<9, k>>, ""))
          ELSE Organic(<<<<"spam", k, FALSE>>>>, Url(SpamHostAt(k), <<9, k>>, ""))]

FailureAnswers ==
    {AnswerStatus, AnswerNetwork, AnswerBadJson, AnswerNotDict, AnswerNullResults,
     AnswerNoResultsKey}

\* the answers tried for each of n queries: for a few queries every failure
\* and every short list, for many queries one failure of each outcome
SearchAnswers(n) ==
    IF n <= RichQueries
      THEN FailureAnswers \cup LongAnswers \cup {AnswerOk(l) : l \in ShortLists}
             \cup {AnswerOk(InterleavedList)}
      ELSE {AnswerStatus, AnswerNotDict} \cup LongAnswers

\* the query lists handed to execute_searches: the text of a query decides
\* nothing in the handler, so one list of each length stands for all
QueryList(n) == [k \in 1..n |-> SearchQuery(<<"query", k>>, "background")]

(***************************************************************************)
(* ContentExtractor (content_extractor.py).                                *)
(*                                                                         *)
(* A cleaned text (what _clean_text returns) is described by what the      *)
(* later stages read of it: the lengths of the pieces that '. ' separates  *)
(* (its sentences), the number of its whitespace-separated tokens, the     *)
(* number of distinct lowercased tokens, and how many of the relevance     *)
(* keywords occur in it.                                                   *)
(***************************************************************************)
Text(sentences, words, unique, keywords) ==
    [sentences |-> sentences, words |-> words, unique |-> unique, keywords |-> keywords]

RECURSIVE SumSeq(_)
SumSeq(s) == IF s = <<>> THEN 0 ELSE Head(s) + SumSeq(Tail(s))

\* len(content): the sentences and the '. ' between them
TextLen(text) == SumSeq(text.sentences) + 2 * (Len(text.sentences) - 1)

max_content_length == 50000

min_content_length == 200

max_chunk_size == 4000

MinWordCount == 100

MinKeywords == 2

\* a page of two sentences that fits one chunk
ShortDoc == Text(<<1500, 1200>>, 450, 200, 3)

\* a page of two sentences of 2500 characters: 5002 characters, two chunks
LongDoc == Text(<<2500, 2500>>, 800, 320, 5)

\* 250 characters, 50 words: long enough to be extracted, too short for the gate
ThinDoc == Text(<<250>>, 50, 40, 2)

\* 150 characters: below min_content_length
TinyDoc == Text(<<150>>, 30, 25, 2)

\* 60,002 characters in two sentences: above max_content_length
HugeDoc == Text(<<30000, 30000>>, 9000, 3000, 5)

(***************************************************************************)
(* What fetching a URL gives: an exception of session.get or of reading    *)
(* the body, a timeout, a status other than 200, a content type that is    *)
(* not text/html, HTML that the parser fails on, or an HTML page with its  *)
(* <title> text and the text selected from it, whitespace and boilerplate  *)
(* patterns removed (content_extractor.py:172-204), not yet limited in     *)
(* length.  head is what a text longer than max_content_length holds once  *)
(* it is cut and "..." is appended: its tokens, its distinct tokens and    *)
(* its keywords; a text within the limit is not cut.                       *)
(* The pages have no <title>, and their text starts with a word.           *)
(***************************************************************************)
Untitled == <<Cap("untitled")>>

Facts(words, unique, keywords) == [words |-> words, unique |-> unique, keywords |-> keywords]

Page(kind, text) ==
    [kind |-> kind, title |-> Untitled, text |-> text,
     head |-> Facts(text.words, text.unique, text.keywords)]

LongPage(text, head) == [kind |-> "html", title |-> Untitled, text |-> text, head |-> head]

PageFailures ==
    {Page(k, TinyDoc) : k \in {"exception", "timeout", "status", "not_html", "parse_error"}}

RECURSIVE CutTo(_, _)
\* the sentences of text[:budget], for a text longer than budget
CutTo(sentences, budget) ==
    IF sentences = <<>> THEN <<>>
    ELSE LET h == Head(sentences)
         IN  IF h >= budget THEN <<budget>>
             ELSE IF Len(sentences) = 1 THEN <<h>>
             ELSE IF h + 1 = budget THEN <<h + 1>>          \* ends with the period
             ELSE IF h + 2 = budget THEN <<h, 0>>           \* ends with '. '
             ELSE <<h>> \o CutTo(Tail(sentences), budget - h - 2)

\* s + "..."
WithEllipsis(sentences) ==
    [k \in DOMAIN sentences |->
        IF k = Len(sentences) THEN sentences[k] + 3 ELSE sentences[k]]

\* content_extractor.py:206-210
_clean_text(page) ==
    IF TextLen(page.text) > max_content_length
      THEN Text(WithEllipsis(CutTo(page.text.sentences, max_content_length)),
                page.head.words, page.head.unique, page.head.keywords)
    ELSE page.text

\* content_extractor.py:98-165: the title and the content, or None
_extract_clean_content(page) ==
    IF page.kind = "parse_error" THEN <<>>                           \* :162-163
    ELSE LET content_text == _clean_text(page)
         IN  IF TextLen(content_text) >= min_content_length          \* :156
               THEN <<[title |-> page.title, content |-> content_text]>>
             ELSE <<>>

ExtractedContent(title, url, content, domain, word_count) ==
    [title |-> title, url |-> url, content |-> content, domain |-> domain,
     word_count |-> word_count]

\* content_extractor.py:51-96.  A failure gives None.
_extract_single_url(search_result, page) ==
    IF page.kind \in {"exception", "timeout", "status", "not_html"} THEN <<>>
    ELSE LET extracted == _extract_clean_content(page)
         IN  IF extracted = <<>> THEN <<>>
             ELSE <<ExtractedContent(extracted[1].title, search_result.url,
                                     extracted[1].content, search_result.domain,
                                     extracted[1].content.words)>>     \* :88

\* the gate with the word count compared by <= at :217
QualityAbove100Words(content) ==
    /\ ~(content.word_count <= MinWordCount)
    /\ ~(IF content.content.words > 0
           THEN 10 * content.content.unique < 3 * content.content.words
           ELSE TRUE)
    /\ ~(content.content.keywords < MinKeywords)

\* content_extractor.py:212-248
_is_quality_content(content) ==
    /\ ~(content.word_count < MinWordCount)                        \* :217
    /\ ~(IF content.content.words > 0
           THEN 10 * content.content.unique < 3 * content.content.words
           ELSE TRUE)                                              \* :224-226
    /\ ~(content.content.keywords < MinKeywords)                   \* :243

RECURSIVE ExtractAllOrNothing(_, _, _)
\* the gather in which the failure of one fetch loses the whole batch
ExtractAllOrNothing(results, pages, quality_content) ==
    IF results = <<>> THEN quality_content
    ELSE IF Head(pages).kind # "html" THEN <<>>
    ELSE LET got == _extract_single_url(Head(results), Head(pages))
         IN  ExtractAllOrNothing(Tail(results), Tail(pages),
                                 quality_content \o SelectSeq(got, _is_quality_content))

RECURSIVE ExtractAll(_, _, _)
\* content_extractor.py:35-46: the gathered results in input order, None
\* dropped, then the quality gate
ExtractAll(results, pages, quality_content) ==
    IF results = <<>> THEN quality_content
    ELSE LET got == _extract_single_url(Head(results), Head(pages))
         IN  ExtractAll(Tail(results), Tail(pages),
                        quality_content \o SelectSeq(got, _is_quality_content))

\* content_extractor.py:27-49
extract_multiple(results, pages) == ExtractAll(results, pages, <<>>)

IsHtmlFetch(fetch) == fetch[2].kind = "html"

\* the extraction that also removes from search_results the results whose
\* fetch gave no page
ExtractMultipleInPlace(pages) ==
    /\ pc = "extract_multiple"
    /\ \E fetched \in [1..Len(search_results) -> pages] :
          /\ fetched_pages' = fetched
          /\ extracted_content' = extract_multiple(search_results, fetched)
          /\ search_results' =
                LET fetches == [k \in DOMAIN search_results |-> <<search_results[k], fetched[k]>>]
                    kept == SelectSeq(fetches, IsHtmlFetch)
                IN  [k \in DOMAIN kept |-> kept[k][1]]
    /\ pc' = "summarize_sources"
    /\ UNCHANGED <<request, error, qg_reply, queries, provider_answers,
                   source_summaries, llm_calls, synth_reply, unified_summary, response,
                   sum_pc, batch_i, tasks>>

(***************************************************************************)
(* main.search_and_summarize, step 3 (main.py:93).  Every exception of a   *)
(* fetch is caught in _extract_single_url, so this step never raises.      *)
(***************************************************************************)
ExtractMultiple(pages) ==
    /\ pc = "extract_multiple"
    /\ \E fetched \in [1..Len(search_results) -> pages] :
          /\ fetched_pages' = fetched
          /\ extracted_content' = extract_multiple(search_results, fetched)
    /\ pc' = "summarize_sources"
    /\ UNCHANGED <<request, error, qg_reply, queries, provider_answers, search_results,
                   source_summaries, llm_calls, synth_reply, unified_summary, response,
                   sum_pc, batch_i, tasks>>

(***************************************************************************)
(* Summarizer (summarizer.py).                                             *)
(*                                                                         *)
(* A bullet is the text it was built from (a fixed f-string template, or   *)
(* the text of a line of a completion) and the values formatted into it.   *)
(***************************************************************************)
Bullet(text, a, b, n) == [text |-> text, a |-> a, b |-> b, n |-> n]

(***************************************************************************)
(* A completion is a failed call (ok = FALSE: an exception of the client,  *)
(* or a None content) or the lines of its stripped text.  Of a stripped    *)
(* line the program reads whether it starts with a bullet marker (a        *)
(* bullet, a hyphen or an asterisk), how long it is, and how it starts.    *)
(***************************************************************************)
Line(marked, len, starts) == [marked |-> marked, len |-> len, starts |-> starts]

MarkedLine == Line(TRUE, 60, "")

PlainLine == Line(FALSE, 60, "")     \* an unmarked sentence

MediumLine == Line(FALSE, 25, "")    \* longer than 20, not longer than 30

HereAreLine == Line(FALSE, 45, "Here are")

BasedLine == Line(FALSE, 45, "Based")

ShortLine == Line(FALSE, 10, "")

Completion(ok, lines) == [called |-> TRUE, ok |-> ok, lines |-> lines]

FailedCall == Completion(FALSE, <<>>)

NoReply == [called |-> FALSE, ok |-> FALSE, lines |-> <<>>]

\* str.startswith(prefix) for the ways a line starts that are told apart
StartsWith(starts, prefix) ==
    \/ starts = prefix
    \/ starts = "Here are" /\ prefix = "Here"

StartsWithAny(starts, prefixes) == \E prefix \in prefixes : StartsWith(starts, prefix)

\* line[1:].strip() of a marked line, or the line itself
LineBullet(line) == Bullet("<text of the line>", "", "", 0)

\* summarizer.py:155-158
IsChunkBullet(line) ==
    \/ line.marked
    \/ line.len > 20 /\ ~StartsWithAny(line.starts, {"Here are", "Summary:", "Key points:"})

\* summarizer.py:234
IsConsolidatedBullet(line) == line.marked

\* summarizer.py:303-306
IsSynthesisBullet(line) ==
    \/ line.marked
    \/ line.len > 30 /\ ~StartsWithAny(line.starts, {"Here", "Based", "The following"})

BulletsOf(lines) == [k \in DOMAIN lines |-> LineBullet(lines[k])]

Unavailable(domain) == Bullet("Summary unavailable for content from {domain}", domain, "", 0)

AdditionalContext(domain) == Bullet("Additional context from {domain}", domain, "", 0)

ProcessingError == Bullet("Summary unavailable - processing error", "", "", 0)

\* summarizer.py:135-171
_summarize_chunk(reply, domain) ==
    IF ~reply.ok THEN <<Unavailable(domain)>>                            \* :169-171
    ELSE LET bullet_points == BulletsOf(SelectSeq(reply.lines, IsChunkBullet))
         IN  IF Len(bullet_points) < 3
               THEN bullet_points \o Repeat(AdditionalContext(domain), 3 - Len(bullet_points))
             ELSE IF Len(bullet_points) > 4 THEN Take(bullet_points, 4)
             ELSE bullet_points

\* summarizer.py:215-242
_consolidate_summaries(chunk_summaries, reply) ==
    IF ~reply.ok THEN Take(chunk_summaries, 4)                           \* :240-242
    ELSE LET bullet_points == BulletsOf(SelectSeq(reply.lines, IsConsolidatedBullet))
         IN  IF bullet_points # <<>> THEN Take(bullet_points, 4)
             ELSE Take(chunk_summaries, 4)

RECURSIVE ChunkLoopWithoutSeparator(_, _, _, _)
\* the loop with a test that leaves the ". " of the sentence out of the count
ChunkLoopWithoutSeparator(sentences, k, current_chunk, chunks) ==
    IF k > Len(sentences)
      THEN IF current_chunk # <<>> THEN Append(chunks, current_chunk) ELSE chunks
    ELSE IF SumSeq([m \in DOMAIN current_chunk |-> sentences[current_chunk[m]] + 2])
                + sentences[k] <= max_chunk_size
      THEN ChunkLoopWithoutSeparator(sentences, k + 1, Append(current_chunk, k), chunks)
    ELSE ChunkLoopWithoutSeparator(sentences, k + 1, <<k>>,
                   IF current_chunk # <<>> THEN Append(chunks, current_chunk) ELSE chunks)

RECURSIVE ChunkLoop(_, _, _, _)
\* summarizer.py:184-193.  A chunk is the sequence of the sentences (their
\* positions in the content) it holds; current_chunk holds each with its
\* ". ", so it is empty exactly when it holds no sentence.
ChunkLoop(sentences, k, current_chunk, chunks) ==
    IF k > Len(sentences)
      THEN IF current_chunk # <<>> THEN Append(chunks, current_chunk) ELSE chunks
    ELSE IF SumSeq([m \in DOMAIN current_chunk |-> sentences[current_chunk[m]] + 2])
                + sentences[k] + 2 <= max_chunk_size
      THEN ChunkLoop(sentences, k + 1, Append(current_chunk, k), chunks)
    ELSE ChunkLoop(sentences, k + 1, <<k>>,
                   IF current_chunk # <<>> THEN Append(chunks, current_chunk) ELSE chunks)

\* summarizer.py:173-195
_chunk_content(content) ==
    IF TextLen(content) <= max_chunk_size
      THEN <<[k \in DOMAIN content.sentences |-> k]>>
      ELSE ChunkLoop(content.sentences, 1, <<>>, <<>>)

\* len(chunk) of a chunk of _chunk_content(content): the content itself at
\* summarizer.py:178; at :189 and :193 its sentences, each with its ". ",
\* less the last blank, which strip() removes
ChunkLength(content, chunk) ==
    IF TextLen(content) <= max_chunk_size THEN TextLen(content)
    ELSE SumSeq([m \in DOMAIN chunk |-> content.sentences[chunk[m]] + 2]) - 1

\* date_accessed, the time of the call, is left out
SourceSummary(title, url, domain, source_summary) ==
    [title |-> title, url |-> url, domain |-> domain, source_summary |-> source_summary]

NoSummary == SourceSummary(EmptyTitle, NoUrl, "", <<>>)

\* summarizer.py:89-95
SummaryOf(content, summary_points) ==
    SourceSummary(content.title, content.url, content.domain, summary_points)

NoSourcesFound == Bullet("No relevant sources found for analysis.", "", "", 0)

\* summarizer.py:311-314
SynthesisPadding(subject, purpose) ==
    << Bullet("Research indicates {subject} is a significant policy area requiring attention.",
              subject, "", 0),
       Bullet("Multiple government sources provide relevant context for {purpose}.",
              purpose, "", 0) >>

\* summarizer.py:323-329
fallback_summary(n_sources, subject, purpose) ==
    << Bullet("Research compiled from {len(source_summaries)} government and policy sources.",
              "", "", n_sources),
       Bullet("Key themes identified related to {subject} and {purpose}.", subject, purpose, 0),
       Bullet("Multiple official sources provide relevant background information.", "", "", 0),
       Bullet("Recent developments and policy positions have been documented.", "", "", 0),
       Bullet("Further analysis recommended based on collected research.", "", "", 0) >>

\* synthesize_summary without the padding of :309-314
SynthesizeWithoutPadding(summaries, subject, purpose, reply) ==
    IF summaries = <<>> THEN <<NoSourcesFound>>
    ELSE IF ~reply.ok THEN fallback_summary(Len(summaries), subject, purpose)
    ELSE Take(BulletsOf(SelectSeq(reply.lines, IsSynthesisBullet)), 7)

\* summarizer.py:244-332.  The flattened points of the sources (:253-258) go
\* into the prompt only; what comes back is the completion's to decide.
synthesize_summary(summaries, subject, purpose, reply) ==
    IF summaries = <<>> THEN <<NoSourcesFound>>                          \* :249-250
    ELSE IF ~reply.ok THEN fallback_summary(Len(summaries), subject, purpose)
    ELSE LET bullet_points == BulletsOf(SelectSeq(reply.lines, IsSynthesisBullet))
         IN  IF Len(bullet_points) < 5
               THEN bullet_points
                      \o Take(SynthesisPadding(subject, purpose), 5 - Len(bullet_points))
             ELSE IF Len(bullet_points) > 7 THEN Take(bullet_points, 7)
             ELSE bullet_points

(***************************************************************************)
(* summarize_sources (summarizer.py:23-59) and the coroutines of a batch.  *)
(*                                                                         *)
(* sum_pc is where summarize_sources stands:                               *)
(*   "idle"   - not started (or returned)                                  *)
(*   "gather" - awaiting the batch extracted_content[batch_i:batch_i+5]    *)
(*   "sleep"  - in the pause after a batch that is not the last            *)
(*   "loop"   - after the last batch, at the head of the for loop          *)
(* tasks[k] is the coroutine _summarize_single_source of the k-th source   *)
(* of the batch: "chunk" before the completion call of chunk j,            *)
(* "consolidate" before the consolidation call, "done" with its result     *)
(* (its locals are gone).                                                  *)
(* A coroutine suspends only in a completion call, so each call, with what *)
(* follows it up to the next call, is one step.                            *)
(***************************************************************************)
batch_size == 5

\* llm_calls: how many completion calls the Summarizer made, and whether
\* every one of them failed
NoCalls == [made |-> 0, all_failed |-> TRUE]

\* the count when a failed call is issued a second time
CountedWithRetry(calls, reply) ==
    [made |-> calls.made + (IF reply.ok THEN 1 ELSE 2),
     all_failed |-> calls.all_failed /\ ~reply.ok]

Counted(calls, reply) ==
    [made |-> calls.made + 1, all_failed |-> calls.all_failed /\ ~reply.ok]

Task(p, j, chunks, chunk_summaries, result) ==
    [pc |-> p, j |-> j, chunks |-> chunks, chunk_summaries |-> chunk_summaries,
     result |-> result]

\* summarizer.py:68, up to the first completion call
NewTask(content) == Task("chunk", 1, _chunk_content(content.content), <<>>, NoSummary)

IsModelSummary(task) == \A m \in DOMAIN task.result.source_summary :
                            task.result.source_summary[m] = LineBullet(MarkedLine)

\* the results of a batch without those of the sources whose calls failed
CollectWithoutFailed(done_tasks) ==
    LET kept == SelectSeq(done_tasks, IsModelSummary)
    IN  [k \in DOMAIN kept |-> kept[k].result]

\* summarizer.py:44-48: what gather returned, in task order; every task
\* returns a SourceSummary
CollectBatch(done_tasks) == [k \in DOMAIN done_tasks |-> done_tasks[k].result]

\* summarizer.py:36-42, and the return at :59 when the range is exhausted
NextBatch ==
    /\ pc = "summarize_sources"
    /\ sum_pc \in {"idle", "sleep", "loop"}
    /\ LET i == IF sum_pc = "idle" THEN 0 ELSE batch_i + batch_size
           n == Len(extracted_content)
       IN  IF i < n
             THEN /\ batch_i' = i
                  /\ tasks' = [k \in 1..(Min(i + batch_size, n) - i) |->
                                  NewTask(extracted_content[i + k])]
                  /\ sum_pc' = "gather"
                  /\ pc' = pc
             ELSE /\ batch_i' = 0
                  /\ tasks' = <<>>
                  /\ sum_pc' = "idle"
                  /\ pc' = "synthesize_summary"
    /\ UNCHANGED <<request, fetched_pages, error, qg_reply, queries, provider_answers,
                   search_results, extracted_content, source_summaries, llm_calls, synth_reply,
                   unified_summary, response>>

\* summarizer.py:72-83, one completion call of one coroutine: _summarize_chunk
\* of its next chunk.  replies[n] is what the call may give in a run over n
\* sources.  Any coroutine of the batch that awaits a call may take the step.
SummarizeChunk(replies) ==
    /\ pc = "summarize_sources"
    /\ sum_pc = "gather"
    /\ \E k \in DOMAIN tasks :
         /\ tasks[k].pc = "chunk"
         /\ \E reply \in replies[Len(extracted_content)] :
              LET task == tasks[k]
                  content == extracted_content[batch_i + k]
                  chunk_summary == _summarize_chunk(reply, content.domain)
              IN  /\ tasks' = [tasks EXCEPT ![k] =
                        IF Len(task.chunks) = 1
                          THEN Task("done", task.j, task.chunks, <<>>,
                                    SummaryOf(content, chunk_summary))
                        ELSE Task(IF task.j < Len(task.chunks) THEN "chunk" ELSE "consolidate",
                                  task.j + 1, task.chunks,
                                  task.chunk_summaries \o chunk_summary, NoSummary)]
                  /\ llm_calls' = Counted(llm_calls, reply)
    /\ UNCHANGED <<request, fetched_pages, pc, error, qg_reply, queries, provider_answers,
                   search_results, extracted_content, source_summaries, synth_reply, unified_summary,
                   response, sum_pc, batch_i>>

\* summarizer.py:83-95, the consolidation call of a coroutine with several chunks
ConsolidateSummaries(replies) ==
    /\ pc = "summarize_sources"
    /\ sum_pc = "gather"
    /\ \E k \in DOMAIN tasks :
         /\ tasks[k].pc = "consolidate"
         /\ \E reply \in replies[Len(extracted_content)] :
              LET task == tasks[k]
                  content == extracted_content[batch_i + k]
              IN  /\ tasks' = [tasks EXCEPT ![k] =
                        Task("done", task.j, task.chunks, <<>>,
                             SummaryOf(content,
                                       _consolidate_summaries(task.chunk_summaries, reply)))]
                  /\ llm_calls' = Counted(llm_calls, reply)
    /\ UNCHANGED <<request, fetched_pages, pc, error, qg_reply, queries, provider_answers,
                   search_results, extracted_content, source_summaries, synth_reply, unified_summary,
                   response, sum_pc, batch_i>>

\* the join that pauses after every batch, the last one too
GatherBatchThenSleep ==
    /\ pc = "summarize_sources"
    /\ sum_pc = "gather"
    /\ \A k \in DOMAIN tasks : tasks[k].pc = "done"
    /\ source_summaries' = source_summaries \o CollectBatch(tasks)
    /\ tasks' = <<>>
    /\ sum_pc' = "sleep"
    /\ UNCHANGED <<request, fetched_pages, pc, error, qg_reply, queries, provider_answers,
                   search_results, extracted_content, llm_calls, synth_reply, unified_summary, response,
                   batch_i>>

\* summarizer.py:42-52: gather returns when every coroutine of the batch has
\* returned; the results are appended in task order
GatherBatch ==
    /\ pc = "summarize_sources"
    /\ sum_pc = "gather"
    /\ \A k \in DOMAIN tasks : tasks[k].pc = "done"
    /\ source_summaries' = source_summaries \o CollectBatch(tasks)
    /\ tasks' = <<>>
    /\ sum_pc' = IF batch_i + batch_size < Len(extracted_content) THEN "sleep" ELSE "loop"
    /\ UNCHANGED <<request, fetched_pages, pc, error, qg_reply, queries, provider_answers,
                   search_results, extracted_content, llm_calls, synth_reply, unified_summary, response,
                   batch_i>>

(***************************************************************************)
(* main.search_and_summarize, step 5 (main.py:101).  Without sources no    *)
(* completion call is made.                                                *)
(***************************************************************************)
SynthesizeSummary(replies) ==
    /\ pc = "synthesize_summary"
    /\ \E reply \in (IF source_summaries = <<>> THEN {NoReply} ELSE replies) :
         /\ synth_reply' = reply
         /\ unified_summary' = synthesize_summary(source_summaries, request.subject,
                                                  request.purpose, reply)
         /\ llm_calls' = IF reply.called THEN Counted(llm_calls, reply) ELSE llm_calls
    /\ pc' = "respond"
    /\ UNCHANGED <<request, fetched_pages, error, qg_reply, queries, provider_answers,
                   search_results, extracted_content, source_summaries, response, sum_pc, batch_i, tasks>>

NoResponse == [queries |-> <<>>, summary |-> <<>>, sources |-> <<>>, complete |-> FALSE]

\* main.py:108-115
Respond ==
    /\ pc = "respond"
    /\ response' = [queries |-> queries, summary |-> unified_summary,
                    sources |-> source_summaries, complete |-> TRUE]
    /\ pc' = "returned"
    /\ UNCHANGED <<request, fetched_pages, error, qg_reply, queries, provider_answers,
                   search_results, extracted_content, source_summaries, llm_calls, synth_reply,
                   unified_summary, sum_pc, batch_i, tasks>>

InitQG ==
    /\ request \in Requests
    /\ pc = "generate_queries"
    /\ error = ""
    /\ qg_reply = QGError
    /\ queries = <<>>
    /\ provider_answers = <<>>
    /\ fetched_pages = <<>>
    /\ search_results = <<>>
    /\ extracted_content = <<>>
    /\ source_summaries = <<>>
    /\ llm_calls = NoCalls
    /\ synth_reply = NoReply
    /\ unified_summary = <<>>
    /\ response = NoResponse
    /\ sum_pc = "idle"
    /\ batch_i = 0
    /\ tasks = <<>>

NextQG == GenerateQueries(QGReplies)

\* QueryGenerator.generate_queries on every request and every reply
SpecQG == InitQG /\ [][NextQG]_vars

InitSearch ==
    /\ request = DefaultRequest
    /\ pc = "execute_searches"
    /\ error = ""
    /\ qg_reply = QGError
    /\ queries \in {QueryList(n) : n \in 0..MaxQueries}
    /\ provider_answers = <<>>
    /\ fetched_pages = <<>>
    /\ search_results = <<>>
    /\ extracted_content = <<>>
    /\ source_summaries = <<>>
    /\ llm_calls = NoCalls
    /\ synth_reply = NoReply
    /\ unified_summary = <<>>
    /\ response = NoResponse
    /\ sum_pc = "idle"
    /\ batch_i = 0
    /\ tasks = <<>>

NextSearch == ExecuteSearches([n \in 0..MaxQueries |-> SearchAnswers(n)])

\* SearchHandler.execute_searches on any number of queries
SpecSearch == InitSearch /\ [][NextSearch]_vars

(***************************************************************************)
(* The completions that are tried: an optional preamble line, a number of  *)
(* marked lines, an optional closing line.                                 *)
(***************************************************************************)
Completions(preambles, max_marked, closings) ==
    {FailedCall} \cup
    {Completion(TRUE, pre \o Repeat(MarkedLine, b) \o post) :
        pre \in preambles, b \in 0..max_marked, post \in closings}

\* an unmarked sentence alone, and a preamble before a marked line
OtherCompletions ==
    {Completion(TRUE, <<PlainLine>>), Completion(TRUE, <<HereAreLine, MarkedLine>>)}

\* a few completions of a summary call: a failure, three marked lines
FewSummaryReplies(n) == {FailedCall, Completion(TRUE, Repeat(MarkedLine, 3))}

\* every outcome for the lists of at most MaxSources sources, a few for the
\* list of more than one batch
ChunkReplies(n) ==
    IF n <= MaxSources THEN Completions({<<>>}, MaxBullets, {<<>>}) \cup OtherCompletions
    ELSE FewSummaryReplies(n)

ConsolidationReplies(n) == ChunkReplies(n)

SynthesisReplies ==
    Completions({<<>>, <<HereAreLine>>}, MaxSynthBullets,
                {<<>>, <<PlainLine>>, <<BasedLine>>, <<MediumLine>>, <<ShortLine>>})

\* the k-th source handed to summarize_sources
HostAt(k) == IF k % 2 = 1 THEN "ontario.ca" ELSE "canada.ca"

SourceAt(k, doc) ==
    ExtractedContent(<<<<"page", k, FALSE>>>>, Url(HostAt(k), <<0, k>>, ""), doc,
                     HostAt(k), doc.words)

\* one source more than a batch holds
BatchAndOne == [k \in 1..(batch_size + 1) |-> SourceAt(k, ShortDoc)]

\* the lists of at most MaxSources sources, at most MaxLong of them of
\* several chunks, and the list of two batches
SourceLists ==
    UNION {{[k \in 1..n |-> SourceAt(k, docs[k])] :
               docs \in {d \in [1..n -> {ShortDoc, LongDoc}] :
                            Cardinality({k \in 1..n : d[k] = LongDoc}) <= MaxLong}} :
              n \in 0..MaxSources}
      \cup {BatchAndOne}

\* a few completions of the synthesis call: a failure, six marked lines, nothing
FewSynthesisReplies ==
    {FailedCall, Completion(TRUE, Repeat(MarkedLine, 6)), Completion(TRUE, <<>>)}

InitSummarizer ==
    /\ request = DefaultRequest
    /\ pc = "summarize_sources"
    /\ error = ""
    /\ qg_reply = QGError
    /\ queries = <<>>
    /\ provider_answers = <<>>
    /\ fetched_pages = <<>>
    /\ search_results = <<>>
    /\ extracted_content \in SourceLists
    /\ source_summaries = <<>>
    /\ llm_calls = NoCalls
    /\ synth_reply = NoReply
    /\ unified_summary = <<>>
    /\ response = NoResponse
    /\ sum_pc = "idle"
    /\ batch_i = 0
    /\ tasks = <<>>

NextSummarizer ==
    \/ NextBatch
    \/ SummarizeChunk([n \in 0..(batch_size + 1) |-> ChunkReplies(n)])
    \/ ConsolidateSummaries([n \in 0..(batch_size + 1) |-> ConsolidationReplies(n)])
    \/ GatherBatch
    \/ SynthesizeSummary(FewSynthesisReplies)

\* Summarizer.summarize_sources, then Summarizer.synthesize_summary on its result
SpecSummarizer == InitSummarizer /\ [][NextSummarizer]_vars


(***************************************************************************)
(* Summarizer.synthesize_summary on its own: any list of at most           *)
(* MaxSources summaries of one, three or four bullets.                     *)
(***************************************************************************)
SummaryAt(k, points) ==
    SourceSummary(<<<<"page", k, FALSE>>>>, Url(HostAt(k), <<0, k>>, ""), HostAt(k), points[k])

SummaryShapes(k) ==
    {<<Unavailable(HostAt(k))>>, Repeat(LineBullet(MarkedLine), 3),
     Repeat(LineBullet(MarkedLine), 4)}

SummaryLists ==
    UNION {{[k \in 1..n |-> SummaryAt(k, points)] :
               points \in {f \in [1..n -> UNION {SummaryShapes(k) : k \in 1..n}] :
                               \A k \in 1..n : f[k] \in SummaryShapes(k)}} :
              n \in 0..MaxSources}

InitSynthesis ==
    /\ request \in Requests
    /\ pc = "synthesize_summary"
    /\ error = ""
    /\ qg_reply = QGError
    /\ queries = <<>>
    /\ provider_answers = <<>>
    /\ fetched_pages = <<>>
    /\ search_results = <<>>
    /\ extracted_content = <<>>
    /\ source_summaries \in SummaryLists
    /\ llm_calls = NoCalls
    /\ synth_reply = NoReply
    /\ unified_summary = <<>>
    /\ response = NoResponse
    /\ sum_pc = "idle"
    /\ batch_i = 0
    /\ tasks = <<>>

NextSynthesis == SynthesizeSummary(SynthesisReplies)

SpecSynthesis == InitSynthesis /\ [][NextSynthesis]_vars

(***************************************************************************)
(* ContentExtractor.extract_multiple on its own: at most MaxUrls search    *)
(* results, every kind of fetch failure, and pages on both sides of each   *)
(* threshold of the extraction and of the quality gate.                    *)
(***************************************************************************)
\* 600 characters; 50, 99 or 100 words; 29 or 30 distinct words; 1 or 2 keywords
GateDocs == {Text(<<600>>, w, u, k) : w \in {50, 99, 100}, u \in {29, 30}, k \in {1, 2}}

\* a page longer than max_content_length, and what its first 50,000 characters hold
HugePage == LongPage(HugeDoc, Facts(7500, 2600, 5))

ExtractPages ==
    PageFailures \cup {Page("html", doc) : doc \in GateDocs \cup {TinyDoc}} \cup {HugePage}

\* the search results handed to extract_multiple: distinct URLs
UrlList(n) ==
    [k \in 1..n |-> SearchResult(<<<<"result", k, FALSE>>>>, Url(HostAt(k), <<0, k>>, ""),
                                 HostAt(k))]

InitExtract ==
    /\ request = DefaultRequest
    /\ pc = "extract_multiple"
    /\ error = ""
    /\ qg_reply = QGError
    /\ queries = <<>>
    /\ provider_answers = <<>>
    /\ fetched_pages = <<>>
    /\ search_results \in {UrlList(n) : n \in 0..MaxUrls}
    /\ extracted_content = <<>>
    /\ source_summaries = <<>>
    /\ llm_calls = NoCalls
    /\ synth_reply = NoReply
    /\ unified_summary = <<>>
    /\ response = NoResponse
    /\ sum_pc = "idle"
    /\ batch_i = 0
    /\ tasks = <<>>

NextExtract == ExtractMultiple(ExtractPages)

SpecExtract == InitExtract /\ [][NextExtract]_vars

(***************************************************************************)
(* main.search_and_summarize (main.py:71-119): the five stages in turn,    *)
(* with a few outcomes of every external call, the failure of each among   *)
(* them.                                                                   *)
(***************************************************************************)
GoodQGReply ==
    QGReply("text", "json",
            Payload("array", <<Item(TRUE, TRUE, TRUE, "llm query", "background"),
                               Item(TRUE, TRUE, TRUE, "llm query", "recent"),
                               Item(TRUE, TRUE, TRUE, "llm query", "policy")>>))

FewQGReplies == {QGError, GoodQGReply}

FewSearchAnswers(n) ==
    {AnswerNetwork, AnswerNotDict, AnswerOk(<<ItemT4, ItemSpam>>), AnswerOk(<<ItemT5>>),
     AnswerOk(<<ItemEmptyTitle, ItemNoTitle>>)}

FewPages == {Page("exception", TinyDoc), Page("html", ShortDoc), Page("html", LongDoc)}

Init ==
    /\ request = DefaultRequest
    /\ pc = "generate_queries"
    /\ error = ""
    /\ qg_reply = QGError
    /\ queries = <<>>
    /\ provider_answers = <<>>
    /\ fetched_pages = <<>>
    /\ search_results = <<>>
    /\ extracted_content = <<>>
    /\ source_summaries = <<>>
    /\ llm_calls = NoCalls
    /\ synth_reply = NoReply
    /\ unified_summary = <<>>
    /\ response = NoResponse
    /\ sum_pc = "idle"
    /\ batch_i = 0
    /\ tasks = <<>>

Next ==
    \/ GenerateQueries(FewQGReplies)
    \/ ExecuteSearches([n \in 0..3 |-> FewSearchAnswers(n)])
    \/ ExtractMultiple(FewPages)
    \/ NextBatch
    \/ SummarizeChunk([n \in 0..TotalCap |-> FewSummaryReplies(n)])
    \/ ConsolidateSummaries([n \in 0..TotalCap |-> FewSummaryReplies(n)])
    \/ GatherBatch
    \/ SynthesizeSummary(FewSynthesisReplies)
    \/ Respond

Spec == Init /\ [][Next]_vars


(***************************************************************************)
(* Properties.                                                             *)
(***************************************************************************)
CategoryCount(qs, c) == Cardinality({k \in DOMAIN qs : qs[k].category = c})

\* C4: generate_queries returns exactly 3 queries, exactly one of each
\* category background, recent and policy, whatever the LLM replies.
C4_OneQueryPerCategory ==
    pc = "execute_searches" =>
        /\ Len(queries) = 3
        /\ \A c \in Categories : CategoryCount(queries, c) = 1

\* C5: the list execute_searches returns has at most 15 results and no two
\* of them have the same URL.
C5_AtMost15NoDuplicateUrl ==
    pc = "extract_multiple" =>
        /\ Len(search_results) <= 15
        /\ \A i, j \in DOMAIN search_results :
              i # j => search_results[i].url # search_results[j].url

\* four queries, each answered by its own long list: 20 distinct results
C5_Witness ==
    /\ pc = "extract_multiple"
    /\ provider_answers = [k \in 1..4 |-> AnswerOk(LongList(k))]
    /\ Len(search_results) = 15

Shared(a, b) == Cardinality(TitleWords(a) \cap TitleWords(b))

AllWords(a, b) == Cardinality(TitleWords(a) \cup TitleWords(b))

\* C6 (as claimed): of two results whose titles have a word-set Jaccard
\* similarity of at least 80% (exactly 80% included), at most one is in the
\* output.
C6_AtMostOneOfTitlesAtLeast80 ==
    pc = "extract_multiple" =>
        \A i, j \in DOMAIN search_results :
            i < j =>
                LET a == search_results[i].title
                    b == search_results[j].title
                IN  ~(AllWords(a, b) > 0 /\ 5 * Shared(a, b) >= 4 * AllWords(a, b))

\* C6 (amended): of two results whose titles have a word-set Jaccard
\* similarity strictly above 80%, at most one is in the output.
C6_AtMostOneOfTitlesAbove80 ==
    pc = "extract_multiple" =>
        \A i, j \in DOMAIN search_results :
            i < j =>
                LET a == search_results[i].title
                    b == search_results[j].title
                IN  ~(AllWords(a, b) > 0 /\ 5 * Shared(a, b) > 4 * AllWords(a, b))

\* two results on acceptable domains, distinct URLs, titles 5/6 alike: one is left
C6_Witness ==
    /\ pc = "extract_multiple"
    /\ provider_answers = <<AnswerOk(<<ItemT5, ItemT6>>)>>
    /\ Len(search_results) = 1

\* a query whose provider call failed: non-2xx, network error, or a payload
\* that is not the expected object with a list of organic results
IsFailedAnswer(answer) ==
    \/ answer.kind \in {"status", "network", "bad_json"}
    \/ ~answer.body.isdict
    \/ ~answer.body.has_organic
    \/ answer.body.organic_null

IsSuccessfulAnswer(answer) == ~IsFailedAnswer(answer)

\* C7: execute_searches never raises because of a failed query: the failed
\* query contributes nothing, and the output is what the successful queries
\* alone give.
C7_FailedQueriesContributeNothing ==
    (pc # "execute_searches" /\ \E k \in DOMAIN provider_answers :
                                    IsFailedAnswer(provider_answers[k])) =>
        LET alone == execute_searches(SelectSeq(provider_answers, IsSuccessfulAnswer))
        IN  alone.exc = "" => (pc = "extract_multiple" /\ search_results = alone.value)

\* C1: whatever the LLM, the search provider and the page fetches do, the
\* pipeline does not end in an error, and the response it returns is
\* complete: exactly 3 queries, the sources, a non-empty synthesis.
C1_PipelineReturnsCompleteResponse ==
    /\ pc # "raised"
    /\ pc = "returned" =>
          /\ response.complete
          /\ Len(response.queries) = 3
          /\ response.summary # <<>>

\* C2: every SourceSummary that summarize_sources returns has 3 or 4
\* bullets, whatever the chunk and consolidation calls give.
C2_EverySummaryHas3Or4Bullets ==
    \A k \in DOMAIN source_summaries :
        Len(source_summaries[k].source_summary) \in {3, 4}

SynthesisBulletsOf(reply) == SelectSeq(reply.lines, IsSynthesisBullet)

\* C3: with a non-empty list of source summaries and a model call that
\* succeeds, synthesize_summary returns between 5 and 7 bullets, however
\* many bullets the completion holds.
C3_SuccessfulSynthesisHas5To7Bullets ==
    (pc = "respond" /\ source_summaries # <<>> /\ synth_reply.ok) =>
        /\ Len(unified_summary) >= 5
        /\ Len(unified_summary) <= 7

SummarizerReturned == pc \in {"synthesize_summary", "respond"}

\* C8: when every model call of a run fails, every SourceSummary holds
\* exactly one bullet, the notice that the summary is unavailable, however
\* many chunks the source has, and the synthesis is the 5 fallback bullets
\* naming the subject and the number of sources.
C8_AllCallsFailingGivesOneBulletEach ==
    (SummarizerReturned /\ llm_calls.made > 0 /\ llm_calls.all_failed) =>
        /\ \A k \in DOMAIN source_summaries :
              source_summaries[k].source_summary
                  = <<Unavailable(extracted_content[k].domain)>>
        /\ pc = "respond" =>
              unified_summary = fallback_summary(Len(source_summaries), request.subject,
                                                 request.purpose)

\* what _summarize_chunk can give for a chunk of the source, in a run over n sources
ChunkSummaries(content, n) ==
    {_summarize_chunk(reply, content.domain) : reply \in ChunkReplies(n)}

RECURSIVE ChunkSummaryLists(_, _, _)
\* the chunk_summaries of a source of c chunks
ChunkSummaryLists(content, n, c) ==
    IF c = 0 THEN {<<>>}
    ELSE {a \o b : a \in ChunkSummaryLists(content, n, c - 1), b \in ChunkSummaries(content, n)}

\* the summaries the source can get when it is summarized alone
SummariesAlone(content, n) ==
    LET c == Len(_chunk_content(content.content))
    IN  IF c = 1 THEN ChunkSummaries(content, n)
        ELSE {_consolidate_summaries(chunk_summaries, reply) :
                 chunk_summaries \in ChunkSummaryLists(content, n, c),
                 reply \in ConsolidationReplies(n)}

\* C9: summarize_sources drops no source: batch after batch the summaries
\* are those of the sources so far, in input order, each with the url, title
\* and domain of its source; on return there is one per source, and each is
\* a summary its source gets when summarized alone, whatever failed for the
\* others.
C9_OneSummaryPerSourceInOrder ==
    /\ Len(source_summaries) <= Len(extracted_content)
    /\ \A k \in DOMAIN source_summaries :
          /\ source_summaries[k].url = extracted_content[k].url
          /\ source_summaries[k].title = extracted_content[k].title
          /\ source_summaries[k].domain = extracted_content[k].domain
    /\ sum_pc \in {"sleep", "loop"} =>
          Len(source_summaries) = Min(batch_i + batch_size, Len(extracted_content))
    /\ pc = "synthesize_summary" =>
          /\ Len(source_summaries) = Len(extracted_content)
          /\ \A k \in DOMAIN source_summaries :
                source_summaries[k].source_summary
                    \in SummariesAlone(extracted_content[k], Len(extracted_content))

\* two batches; the calls of the first and of the last source failed, those
\* of the sources between them did not
C9_Witness ==
    /\ pc = "synthesize_summary"
    /\ extracted_content = BatchAndOne
    /\ Len(source_summaries) = batch_size + 1
    /\ \A k \in DOMAIN source_summaries :
          source_summaries[k].source_summary =
              IF k \in {1, batch_size + 1} THEN <<Unavailable(HostAt(k))>>
              ELSE Repeat(LineBullet(MarkedLine), 3)

\* C10: synthesize_summary never returns an empty list, for any list of
\* source summaries, the empty one included, and any outcome of the model
\* call.
C10_SynthesisNeverEmpty ==
    pc = "respond" => unified_summary # <<>>

\* sources, and a completion that succeeded with no line that counts as a bullet
C10_Witness ==
    /\ pc = "respond"
    /\ source_summaries # <<>>
    /\ synth_reply.ok
    /\ SynthesisBulletsOf(synth_reply) = <<>>
    /\ unified_summary = SynthesisPadding(request.subject, request.purpose)

\* C11: with an empty list of source summaries synthesize_summary returns
\* what it returns when the synthesis call fails: the fixed fallback
\* statements naming the subject, the purpose and the number of sources (0),
\* between 5 and 7 of them.
C11_NoSourcesGivesFallbackStatements ==
    (pc = "respond" /\ source_summaries = <<>>) =>
        /\ unified_summary = fallback_summary(0, request.subject, request.purpose)
        /\ Len(unified_summary) >= 5
        /\ Len(unified_summary) <= 7

RECURSIVE Flatten(_)
Flatten(seqs) == IF seqs = <<>> THEN <<>> ELSE Head(seqs) \o Flatten(Tail(seqs))

\* the items extracted from the pages fetched, in the order of the search results
ExtractedItems ==
    Flatten([k \in DOMAIN fetched_pages |->
                _extract_single_url(search_results[k], fetched_pages[k])])

\* at least 100 words, at least 30% of them distinct, at least 2 keywords
MeetsGate(item) ==
    /\ item.word_count >= 100
    /\ 10 * item.content.unique >= 3 * item.content.words
    /\ item.content.keywords >= 2

\* C12: extract_multiple returns exactly the extracted items that pass the
\* quality gate: every item returned has at least 100 words, a uniqueness of
\* at least 0.30 and at least 2 keywords, and every extracted item that has
\* all three is returned.
C12_ExactlyTheItemsThatMeetTheGate ==
    pc = "summarize_sources" =>
        /\ \A k \in DOMAIN extracted_content : MeetsGate(extracted_content[k])
        /\ extracted_content = SelectSeq(ExtractedItems, MeetsGate)

\* a page of 99 words and one of 100, both 30 distinct words and 2 keywords:
\* the second alone is returned
C12_Witness ==
    /\ pc = "summarize_sources"
    /\ fetched_pages = <<Page("html", Text(<<600>>, 99, 30, 2)),
                         Page("html", Text(<<600>>, 100, 30, 2))>>
    /\ Len(extracted_content) = 1
    /\ extracted_content[1].word_count = 100
    /\ extracted_content[1].url = search_results[2].url

(***************************************************************************)
(* Summarizer._chunk_content on its own: one source whose content has at   *)
(* most MaxSentences sentences, of lengths on both sides of the budget;    *)
(* the coroutine of the source is started and chunks its content.          *)
(***************************************************************************)
MaxSentences == 3       \* sentences of a content

SentenceLengths == {10, 1998, 1999, 3999, max_chunk_size, max_chunk_size + 1}

ChunkDocs ==
    {Text(sentences, 800, 320, 5) :
        sentences \in UNION {[1..n -> SentenceLengths] : n \in 1..MaxSentences}}

InitChunk ==
    /\ request = DefaultRequest
    /\ pc = "summarize_sources"
    /\ error = ""
    /\ qg_reply = QGError
    /\ queries = <<>>
    /\ provider_answers = <<>>
    /\ fetched_pages = <<>>
    /\ search_results = <<>>
    /\ extracted_content \in {<<SourceAt(1, doc)>> : doc \in ChunkDocs}
    /\ source_summaries = <<>>
    /\ llm_calls = NoCalls
    /\ synth_reply = NoReply
    /\ unified_summary = <<>>
    /\ response = NoResponse
    /\ sum_pc = "idle"
    /\ batch_i = 0
    /\ tasks = <<>>

NextChunk == NextBatch

SpecChunk == InitChunk /\ [][NextChunk]_vars

\* the content a started coroutine chunked
ChunkedContent(k) == extracted_content[batch_i + k].content

\* a chunk is a single sentence of at least min_length characters
IsSingleSentenceOf(content, chunk, min_length) ==
    Len(chunk) = 1 /\ content.sentences[chunk[1]] >= min_length

\* the chunks hold the sentences of the content, each once, in order
KeepsSentences(content, chunks) ==
    Flatten(chunks) = [m \in DOMAIN content.sentences |-> m]

\* C13 (as stated): a chunk of _chunk_content is longer than 4000 characters
\* only if it is a single sentence that is itself longer than 4000
\* characters; no sentence is split, and the chunks in order hold the
\* sentences of the content, none lost, duplicated or reordered.
C13_ChunkOverBudgetOnlyForSentenceOverBudget ==
    \A k \in DOMAIN tasks :
        /\ KeepsSentences(ChunkedContent(k), tasks[k].chunks)
        /\ \A c \in DOMAIN tasks[k].chunks :
              ChunkLength(ChunkedContent(k), tasks[k].chunks[c]) > max_chunk_size
                  => IsSingleSentenceOf(ChunkedContent(k), tasks[k].chunks[c],
                                        max_chunk_size + 1)

\* C13 (amended): a chunk of _chunk_content is longer than 4000 characters
\* only if it is a single sentence of at least 4000 characters (with the
\* period the chunk gives it, it is over the budget); no sentence is split,
\* and the chunks in order hold the sentences of the content, none lost,
\* duplicated or reordered.
C13_ChunkOverBudgetOnlyForSentenceReachingBudget ==
    \A k \in DOMAIN tasks :
        /\ KeepsSentences(ChunkedContent(k), tasks[k].chunks)
        /\ \A c \in DOMAIN tasks[k].chunks :
              ChunkLength(ChunkedContent(k), tasks[k].chunks[c]) > max_chunk_size
                  => IsSingleSentenceOf(ChunkedContent(k), tasks[k].chunks[c],
                                        max_chunk_size)

\* a content of three sentences chunked in two: two short sentences
\* together, and a sentence of 4000 characters alone in a chunk of 4001
C13_Witness ==
    \E k \in DOMAIN tasks :
        /\ Len(ChunkedContent(k).sentences) = 3
        /\ Len(tasks[k].chunks) = 2
        /\ Len(tasks[k].chunks[1]) = 2
        /\ ChunkedContent(k).sentences[3] = max_chunk_size
        /\ ChunkLength(ChunkedContent(k), tasks[k].chunks[2]) = max_chunk_size + 1

\* the results a provider answer holds that pass the filter, in its order
Survivors(answer) ==
    LET kept == SelectSeq(answer.body.organic, KeepsItem)
    IN  [k \in DOMAIN kept |->
            SearchResult(kept[k].title, kept[k].link, LowerHost(kept[k].link.host))]

\* what a query contributes to the merge: the first 5 of them
FirstSurvivors(answers) ==
    [k \in DOMAIN answers |->
        IF IsSuccessfulAnswer(answers[k]) THEN Take(Survivors(answers[k]), 5) ELSE <<>>]

\* C14: when execute_searches returns, every query has contributed to the
\* merge the first 5 results of its provider answer, in provider order, among
\* those whose domain is not low-quality and whose URL does not end in a
\* document extension: the output is the deduplicated merge of these.
C14_FirstFiveSurvivorsInProviderOrder ==
    pc = "extract_multiple" =>
        search_results = DedupAndCap(Returned(Flatten(FirstSurvivors(provider_answers)))).value

\* 3 results on acceptable domains among 7 on spam domains: exactly the 3,
\* in provider order
C14_Witness ==
    /\ pc = "extract_multiple"
    /\ provider_answers = <<AnswerOk(InterleavedList)>>
    /\ Len(search_results) = 3
    /\ \A k \in 1..3 : search_results[k].title = InterleavedList[<<2, 5, 9>>[k]].title

\* the completion call failed, or what is handed to json.loads is no JSON
FailedOrUnparsable(reply) ==
    \/ reply.kind = "error"
    \/ StripFence(reply.fence, reply.payload).json = "invalid"

\* C15: when the LLM call fails or its reply is no JSON, generate_queries
\* does not raise and returns the three template queries, which are the same
\* for every purpose: they depend on subject and jurisdiction only.
C15_FailedCallGivesTemplatesOfSubjectAndJurisdiction ==
    (pc # "generate_queries" /\ FailedOrUnparsable(qg_reply)) =>
        /\ pc = "execute_searches"
        /\ Len(queries) = 3
        /\ \A purpose \in Purposes :
              queries = _generate_fallback_queries(request.subject, purpose,
                                                   request.jurisdiction)

\* a reply that is text but no JSON, for a request without jurisdiction
C15_Witness ==
    /\ pc = "execute_searches"
    /\ qg_reply.kind = "text"
    /\ qg_reply.fence = "none"
    /\ qg_reply.payload.json = "invalid"
    /\ request.jurisdiction = NoJurisdiction
    /\ Len(queries) = 3
    /\ queries[3].category = "policy"

\* a search result with the page its fetch gave
Fetches == [k \in DOMAIN search_results |-> <<search_results[k], fetched_pages[k]>>]

\* the fetch raised, timed out, answered another status than 200 or another
\* content type than HTML, or the parser raised
FetchFailed(fetch) == fetch[2].kind # "html"

FetchSucceeded(fetch) == ~FetchFailed(fetch)

SucceededFetches == SelectSeq(Fetches, FetchSucceeded)

\* C16: extract_multiple does not raise, and a fetch or parse failure for a
\* URL drops that URL only: the items returned are those the call returns
\* for the other URLs alone.
C16_FailedUrlDropsOnlyItself ==
    pc # "extract_multiple" =>
        /\ pc = "summarize_sources"
        /\ extracted_content =
              extract_multiple([k \in DOMAIN SucceededFetches |-> SucceededFetches[k][1]],
                               [k \in DOMAIN SucceededFetches |-> SucceededFetches[k][2]])

\* a fetch that timed out before a page that is kept
C16_Witness ==
    /\ pc = "summarize_sources"
    /\ Len(search_results) = 2
    /\ fetched_pages[1].kind = "timeout"
    /\ Len(extracted_content) = 1
    /\ extracted_content[1].url = search_results[2].url

\* C17: every ExtractedContent that is constructed has a word_count equal
\* to the number of whitespace-separated tokens of its content, and a
\* content of at least 200 and at most 50,000 characters.
C17_WordCountAndLengthWithinBounds ==
    pc = "summarize_sources" =>
        \A k \in DOMAIN ExtractedItems :
            /\ ExtractedItems[k].word_count = ExtractedItems[k].content.words
            /\ TextLen(ExtractedItems[k].content) >= 200
            /\ TextLen(ExtractedItems[k].content) <= 50000

\* the sources whose coroutine has been started and has not returned
InFlight == {k \in DOMAIN tasks : tasks[k].pc # "done"}

\* the coroutines that run are those of one batch of at most 5 consecutive
\* sources, and every source before the batch has completed and is collected
OneBatchAtATime ==
    /\ Len(tasks) <= 5
    /\ Cardinality(InFlight) <= 5
    /\ tasks # <<>> =>
          /\ batch_i % 5 = 0
          /\ Len(source_summaries) = batch_i
          /\ Len(tasks) = Min(5, Len(extracted_content) - batch_i)

\* summarize_sources pauses exactly when sources remain after a batch
PauseOnlyBetweenBatches ==
    /\ sum_pc = "sleep" => Len(source_summaries) < Len(extracted_content)
    /\ sum_pc = "loop" => Len(source_summaries) = Len(extracted_content)

\* a batch starts at the call, or after the pause that follows a batch
BatchStartsAfterPause ==
    (sum_pc' = "gather" /\ sum_pc # "gather") =>
        \/ sum_pc = "idle" /\ batch_i' = 0
        \/ sum_pc = "sleep" /\ batch_i' = batch_i + 5

\* C18: summarize_sources processes the sources in consecutive batches of at
\* most 5: no source of a batch starts before every source of the batch
\* before it has completed, there is a pause between consecutive batches and
\* none after the last, and at most 5 sources have a call in flight.
C18_BatchesOfFiveWithPauseBetween ==
    /\ [](pc = "summarize_sources" => OneBatchAtATime /\ PauseOnlyBetweenBatches)
    /\ [][pc = "summarize_sources" => BatchStartsAfterPause]_vars

\* the sixth source runs alone in the second batch, the first five collected
C18_Witness ==
    /\ pc = "summarize_sources"
    /\ sum_pc = "gather"
    /\ batch_i = 5
    /\ Len(tasks) = 1
    /\ InFlight = {1}
    /\ Len(source_summaries) = 5

\* the place of a stage in the pipeline
StageIndex(stage) ==
    CASE stage = "generate_queries"   -> 1
      [] stage = "execute_searches"   -> 2
      [] stage = "extract_multiple"   -> 3
      [] stage = "summarize_sources"  -> 4
      [] stage = "synthesize_summary" -> 5
      [] stage = "respond"            -> 6
      [] stage = "returned"           -> 7
      [] OTHER                        -> 0

\* the pipeline leaves a stage for the next stage only, or with an exception
NextStageOnly ==
    pc' # pc => (pc' = "raised" \/ StageIndex(pc') = StageIndex(pc) + 1)

\* a step of a stage leaves the collections of the earlier stages as they are
EarlierCollectionsKept ==
    /\ StageIndex(pc) > 1 => queries' = queries
    /\ StageIndex(pc) > 2 => search_results' = search_results
    /\ StageIndex(pc) > 3 => extracted_content' = extracted_content
    /\ StageIndex(pc) > 4 => source_summaries' = source_summaries
    /\ StageIndex(pc) > 5 => unified_summary' = unified_summary

\* the results of the coroutines of a batch are merged when all have returned
MergedWhenAllDone ==
    (tasks # <<>> /\ tasks' = <<>>) => \A k \in DOMAIN tasks : tasks[k].pc = "done"

\* a stage runs on the merged results of the stage before it: no coroutine
\* of the summarization exists outside its stage, and the synthesis starts
\* with one summary for every source
StageJoined ==
    /\ pc # "summarize_sources" => (tasks = <<>> /\ sum_pc = "idle")
    /\ StageIndex(pc) > 2 => Len(provider_answers) = Len(queries)
    /\ StageIndex(pc) > 3 => Len(fetched_pages) = Len(search_results)
    /\ StageIndex(pc) > 4 => Len(source_summaries) = Len(extracted_content)

\* C19: the stages run strictly in the order query generation, search,
\* extraction, source summarization, synthesis; a stage starts when every
\* concurrent task of the stage before it has completed and its results are
\* merged, and no stage changes the collection an earlier stage produced.
C19_StagesInOrderEarlierCollectionsKept ==
    /\ []StageJoined
    /\ [][NextStageOnly /\ EarlierCollectionsKept /\ MergedWhenAllDone]_vars

\* a run that went through the five stages with something in every collection
C19_Witness ==
    /\ pc = "returned"
    /\ response.complete
    /\ queries # <<>>
    /\ search_results # <<>>
    /\ extracted_content # <<>>
    /\ Len(source_summaries) = Len(extracted_content)
    /\ \E k \in DOMAIN fetched_pages : fetched_pages[k].kind # "html"
    /\ unified_summary # <<>>

\* the completion calls the summary of one source takes: one for a single
\* chunk, else one for each chunk and one for the consolidation
CallsOfSource(content) ==
    LET chunks == _chunk_content(content.content)
    IN  IF Len(chunks) = 1 THEN 1 ELSE Len(chunks) + 1

CallsOfSources == SumSeq([k \in DOMAIN extracted_content |-> CallsOfSource(extracted_content[k])])

\* the calls of the coroutines of the running batch so far
CallsOfTask(task) ==
    IF task.pc = "done" THEN (IF Len(task.chunks) = 1 THEN 1 ELSE Len(task.chunks) + 1)
    ELSE task.j - 1

CallsSoFar ==
    SumSeq([k \in 1..Len(source_summaries) |-> CallsOfSource(extracted_content[k])])
        + SumSeq([k \in DOMAIN tasks |-> CallsOfTask(tasks[k])])

\* C20: no external call is retried: the provider has given one answer for
\* each query, each URL has been fetched once, and the Summarizer has made
\* one call for each chunk, one for each consolidation and one for the
\* synthesis, whether the calls succeeded or failed.
C20_EveryCallIssuedOnce ==
    /\ StageIndex(pc) > 2 => DOMAIN provider_answers = DOMAIN queries
    /\ StageIndex(pc) > 3 => DOMAIN fetched_pages = DOMAIN search_results
    /\ StageIndex(pc) < 4 => llm_calls.made = 0
    /\ pc = "summarize_sources" => llm_calls.made = CallsSoFar
    /\ pc = "synthesize_summary" => llm_calls.made = CallsOfSources
    /\ StageIndex(pc) > 5 =>
          llm_calls.made = CallsOfSources + (IF source_summaries # <<>> THEN 1 ELSE 0)

\* a run in which a provider call, a fetch and all four completion calls
\* for the one source (two chunks, the consolidation, the synthesis) failed
C20_Witness ==
    /\ pc = "returned"
    /\ \E k \in DOMAIN provider_answers : provider_answers[k].kind = "network"
    /\ \E k \in DOMAIN fetched_pages : fetched_pages[k].kind = "exception"
    /\ Len(extracted_content) = 1
    /\ Len(_chunk_content(extracted_content[1].content)) = 2
    /\ llm_calls.made = 4
    /\ llm_calls.all_failed

RECURSIVE IsSubsequence(_, _)
\* sub is seq without some of its elements: each element of sub is matched
\* with its first occurrence in what is left of seq
IsSubsequence(sub, seq) ==
    IF sub = <<>> THEN TRUE
    ELSE IF seq = <<>> THEN FALSE
    ELSE IF Head(sub) = Head(seq) THEN IsSubsequence(Tail(sub), Tail(seq))
    ELSE IsSubsequence(sub, Tail(seq))

\* the list execute_searches hands to _deduplicate_results
MergedResults ==
    MergeFiltered([k \in DOMAIN provider_answers |->
                      _search_single_query(provider_answers[k])], <<>>)

\* C21: _deduplicate_results completes without raising for every list of
\* results, lists with several word-less titles under distinct URLs
\* included, and what it returns is a subsequence of its input in input
\* order.
C21_DeduplicationNeverRaises ==
    (pc # "execute_searches" /\ MergedResults.exc = "") =>
        /\ pc = "extract_multiple"
        /\ error = ""
        /\ IsSubsequence(search_results, MergedResults.value)

\* what holds of it: when _deduplicate_results returns, its output is a
\* subsequence of its input in input order
DeduplicationReturnsSubsequence ==
    pc = "extract_multiple" => IsSubsequence(search_results, MergedResults.value)

====
